---- MODULE Spec2Model ----
(***************************************************************************)
(* Model of the cypress-framework repository: the environment resolution   *)
(* done by setupNodeEvents (cypress.config.ts), the environment overlay    *)
(* files (cypress/config/<name>.config.ts), the global beforeEach hook     *)
(* (cypress/support/e2e.ts) and the cy.login custom command                *)
(* (cypress/support/commands.ts), which caches sessions with cy.session.   *)
(* Also: the tag filter of the grep plugin over the tests of the spec      *)
(* files, retryWithBackoff (cypress/utils/helpers.ts), the ApiHelper class *)
(* (cypress/utils/api-helpers.ts) and the cy.apiRequest command.           *)
(***************************************************************************)
EXTENDS Integers, Sequences, FiniteSets, TLC

\* ------------------------------------------------------------------------
\* Bounds of the model
\* ------------------------------------------------------------------------
MaxTests == 2
MaxLogins == 2
NumSpecFiles == 2
MaxFilterTokens == 4
MaxRetries == 4

\* ------------------------------------------------------------------------
\* JavaScript values
\* ------------------------------------------------------------------------
\* the value of a missing property / unset variable
Undefined == "undefined"

\* obj.k : property access, undefined when the object has no such property
Prop(obj, k) == IF k \in DOMAIN obj THEN obj[k] ELSE Undefined

\* variant: a ?? b, only undefined gives way to b
OrElseNullish(a, b) == IF a = Undefined THEN b ELSE a

\* a || b on strings: the empty string and undefined are falsy
OrElse(a, b) == IF a = Undefined \/ a = "" THEN b ELSE a

\* the object with no own property
EmptyObject == [k \in {} |-> Undefined]

\* { ...a, ...b } : own properties of a, then own properties of b over them
Spread(a, b) ==
    [k \in (DOMAIN a) \cup (DOMAIN b) |-> IF k \in DOMAIN b THEN b[k] ELSE a[k]]

\* variant: obj.k replaces a instead of being spread over it
SpreadPropReplaces(a, obj, k) == IF k \in DOMAIN obj THEN obj[k] ELSE EmptyObject

\* { ...a, ...obj.k } : spreading undefined (obj has no property k)
\* contributes nothing
SpreadProp(a, obj, k) == IF k \in DOMAIN obj THEN Spread(a, obj[k]) ELSE a

\* ------------------------------------------------------------------------
\* Environment overlays: cypress/config/<name>.config.ts
\* ------------------------------------------------------------------------
DefaultUsername == "test@example.com"
DefaultPassword == "TestPassword123!"
NewPassword == "NewPassword123!"

\* process.env.NAME
ProcessEnvVar(penv, name) == Prop(penv, name)

LocalConfig ==
    [baseUrl |-> "http://localhost:3000",
     env |-> [apiUrl |-> "http://localhost:3000/api",
              environment |-> "local",
              username |-> DefaultUsername,
              password |-> DefaultPassword]]

DevConfig(penv) ==
    [baseUrl |-> "https://dev.example.com",
     env |-> [apiUrl |-> "https://dev.example.com/api",
              environment |-> "dev",
              username |-> OrElse(ProcessEnvVar(penv, "DEV_USERNAME"), DefaultUsername),
              password |-> OrElse(ProcessEnvVar(penv, "DEV_PASSWORD"), DefaultPassword)]]

ProductionConfig(penv) ==
    [baseUrl |-> "https://www.example.com",
     env |-> [apiUrl |-> "https://www.example.com/api",
              environment |-> "production",
              username |-> OrElse(ProcessEnvVar(penv, "PROD_USERNAME"), ""),
              password |-> OrElse(ProcessEnvVar(penv, "PROD_PASSWORD"), "")]]

QaConfig(penv) ==
    [baseUrl |-> "https://qa.example.com",
     env |-> [apiUrl |-> "https://qa.example.com/api",
              environment |-> "qa",
              username |-> OrElse(ProcessEnvVar(penv, "QA_USERNAME"), DefaultUsername),
              password |-> OrElse(ProcessEnvVar(penv, "QA_PASSWORD"), DefaultPassword)]]

StagingConfig(penv) ==
    [baseUrl |-> "https://staging.example.com",
     env |-> [apiUrl |-> "https://staging.example.com/api",
              environment |-> "staging",
              username |-> OrElse(ProcessEnvVar(penv, "STAGING_USERNAME"), DefaultUsername),
              password |-> OrElse(ProcessEnvVar(penv, "STAGING_PASSWORD"), DefaultPassword)]]

\* the names <name> for which a file cypress/config/<name>.config.ts exists
ConfigFiles == {"local", "dev", "qa", "staging", "production"}

\* the object a config file declares with `export default`
Overlay(name, penv) ==
    CASE name = "local" -> LocalConfig
      [] name = "dev" -> DevConfig(penv)
      [] name = "qa" -> QaConfig(penv)
      [] name = "staging" -> StagingConfig(penv)
      [] name = "production" -> ProductionConfig(penv)
      [] OTHER -> EmptyObject

\* ------------------------------------------------------------------------
\* Base configuration: cypress.config.ts
\* ------------------------------------------------------------------------
BaseEnv == [grepFilterSpecs |-> TRUE, grepOmitFiltered |-> TRUE]

\* specPattern is a string or a list of strings: held as a list
SpecGlob == <<"cypress/e2e/**/*.cy.{js,jsx,ts,tsx}">>

BaseE2e ==
    [specPattern |-> SpecGlob,
     defaultCommandTimeout |-> 10000,
     requestTimeout |-> 10000,
     responseTimeout |-> 10000,
     pageLoadTimeout |-> 60000,
     retries |-> [runMode |-> 2, openMode |-> 0],
     reporter |-> "cypress-multi-reporters",
     reporterOptions |-> [configFile |-> "reporter-config.json"]]

BaseFields == DOMAIN BaseE2e

\* the config object handed to setupNodeEvents: the e2e settings, no baseUrl
\* (none is declared), and env = declared env with the invocation's --env
\* values over it
ConfigFor(cliEnv) ==
    [k \in BaseFields \cup {"baseUrl", "env"} |->
        CASE k = "baseUrl" -> Undefined
          [] k = "env" -> Spread(BaseEnv, cliEnv)
          [] OTHER -> BaseE2e[k]]

\* ------------------------------------------------------------------------
\* Spec files: the suites and tests they declare, in order
\* ------------------------------------------------------------------------
UsersSpec == "cypress/e2e/api/users.cy.ts"
CheckoutSpec == "cypress/e2e/integration/checkout-flow.cy.ts"
ProfileSpec == "cypress/e2e/regression/user-profile.cy.ts"
LoginSpec == "cypress/e2e/smoke/login.cy.ts"

\* the files the glob of specPattern finds
SpecFiles == <<UsersSpec, CheckoutSpec, ProfileSpec, LoginSpec>>

UsersTags == {"@api", "@users"}
CheckoutTags == {"@integration", "@e2e", "@checkout"}
ProfileTags == {"@regression", "@profile", "@user"}
LoginTags == {"@smoke", "@login", "@critical"}

TestCase(file, suite, name, tags) ==
    [file |-> file, suite |-> suite, name |-> name, tags |-> tags]

\* it(name, { tags }, ...) inside describe(..., { tags: suite }, ...)
Tests ==
    << TestCase(UsersSpec, UsersTags, "should get all users", {"@get"}),
       TestCase(UsersSpec, UsersTags, "should create a new user", {"@post", "@smoke"}),
       TestCase(UsersSpec, UsersTags, "should get user by ID", {"@get"}),
       TestCase(UsersSpec, UsersTags, "should update user", {"@put"}),
       TestCase(UsersSpec, UsersTags, "should return 404 for non-existent user",
                {"@negative", "@get"}),
       TestCase(UsersSpec, UsersTags, "should validate required fields when creating user",
                {"@negative", "@post", "@validation"}),
       TestCase(CheckoutSpec, CheckoutTags, "should complete full checkout process",
                {"@smoke", "@critical"}),
       TestCase(CheckoutSpec, CheckoutTags, "should persist cart items across sessions",
                {"@cart"}),
       TestCase(CheckoutSpec, CheckoutTags, "should calculate correct total with multiple items",
                {"@calculation"}),
       TestCase(CheckoutSpec, CheckoutTags, "should handle empty cart checkout gracefully",
                {"@negative"}),
       TestCase(ProfileSpec, ProfileTags, "should display user profile information", {"@view"}),
       TestCase(ProfileSpec, ProfileTags, "should update user profile successfully", {"@update"}),
       TestCase(ProfileSpec, ProfileTags, "should validate email format", {"@validation"}),
       TestCase(ProfileSpec, ProfileTags, "should change password successfully", {"@security"}),
       TestCase(ProfileSpec, ProfileTags, "should upload profile picture", {"@upload"}),
       TestCase(ProfileSpec, ProfileTags, "should cancel profile edit without saving",
                {"@cancel"}),
       TestCase(ProfileSpec, ProfileTags, "should delete account with confirmation",
                {"@delete", "@critical"}),
       TestCase(LoginSpec, LoginTags, "should display login page correctly", {"@ui"}),
       TestCase(LoginSpec, LoginTags, "should login successfully with valid credentials",
                {"@authentication"}),
       TestCase(LoginSpec, LoginTags, "should show error message with invalid credentials",
                {"@negative"}),
       TestCase(LoginSpec, LoginTags, "should validate required fields", {"@validation"}) >>

\* ------------------------------------------------------------------------
\* Tag filter: the grep plugin registered by setupNodeEvents and imported by
\* the support file. A filter string is held as the sequence of its pieces:
\* the characters ' ' ',' '+' '-' that the parser looks at, and the runs of
\* text between them.
\* ------------------------------------------------------------------------
RECURSIVE Split(_, _)
\* s.split(separator): the pieces of s between separators, empty pieces kept
Split(s, seps) ==
    IF s = <<>> THEN << <<>> >>
    ELSE LET rest == Split(Tail(s), seps)
         IN IF Head(s) \in seps
            THEN << <<>> >> \o rest
            ELSE << <<Head(s)>> \o rest[1] >> \o Tail(rest)

RECURSIVE Join(_)
\* the text of a sequence of pieces
Join(s) == IF s = <<>> THEN "" ELSE Head(s) \o Join(Tail(s))

\* part.startsWith('--')
IsExplicitNot(part) == Len(part) >= 2 /\ part[1] = "-" /\ part[2] = "-"

\* one term of an AND part: a leading '-' inverts the tag
ParseTag(seg) ==
    IF seg # <<>> /\ Head(seg) = "-"
    THEN [tag |-> Join(Tail(seg)), invert |-> TRUE]
    ELSE [tag |-> Join(seg), invert |-> FALSE]

\* part.split('+').map(...)
ParseAndPart(part) ==
    LET segs == Split(part, {"+"})
    IN [i \in 1..Len(segs) |-> ParseTag(segs[i])]

\* parseTagsGrep: parts separated by space or comma are alternatives (OR),
\* the terms of a part joined by '+' must all hold (AND), '--tag' parts are
\* added to every alternative; tags are kept as written
ParseTagsGrep(s) ==
    IF s = <<>> THEN <<>>
    ELSE LET parts == SelectSeq(Split(s, {" ", ","}), LAMBDA part : part # <<>>)
             nots == SelectSeq(parts, IsExplicitNot)
             explicitNotTags ==
                 [i \in 1..Len(nots) |-> [tag |-> Join(SubSeq(nots[i], 3, Len(nots[i]))),
                                          invert |-> TRUE]]
             ands == SelectSeq(parts, LAMBDA part : ~IsExplicitNot(part))
             ORS == [i \in 1..Len(ands) |-> ParseAndPart(ands[i])]
         IN IF explicitNotTags = <<>> THEN ORS
            ELSE IF ORS = <<>> THEN <<explicitNotTags>>
            ELSE [i \in 1..Len(ORS) |-> ORS[i] \o explicitNotTags]

\* variant: one matching term of an alternative is enough
ShouldTestRunTagsAnyTerm(parsedGrepTags, tags) ==
    IF parsedGrepTags = <<>> THEN TRUE
    ELSE \E i \in DOMAIN parsedGrepTags :
            \E j \in DOMAIN parsedGrepTags[i] :
                IF parsedGrepTags[i][j].invert
                THEN parsedGrepTags[i][j].tag \notin tags
                ELSE parsedGrepTags[i][j].tag \in tags

\* shouldTestRunTags: no filter matches everything; otherwise some
\* alternative has every term matched
ShouldTestRunTags(parsedGrepTags, tags) ==
    IF parsedGrepTags = <<>> THEN TRUE
    ELSE \E i \in DOMAIN parsedGrepTags :
            \A j \in DOMAIN parsedGrepTags[i] :
                IF parsedGrepTags[i][j].invert
                THEN parsedGrepTags[i][j].tag \notin tags
                ELSE parsedGrepTags[i][j].tag \in tags

\* env.grepTags, as a filter string ('' when not given)
GrepTagsOf(cfg) == IF "grepTags" \in DOMAIN cfg.env THEN cfg.env.grepTags ELSE <<>>

\* variant: only the test's own tags count
EffectiveTagsOwn(t) == t.tags

\* the tags of a test: its own and those of the enclosing describe
EffectiveTags(t) == t.suite \cup t.tags

\* the tags as the pre-filter reads them under an "effective" plugin version
InheritedTags(t) == t.suite \cup t.tags

\* the tag lists the spec pre-filter reads from a file's source: one per
\* suite and test; whether a test's list includes its suite's tags depends
\* on the plugin version ("own" | "effective")
SourceTagLists(file, mode) ==
    {IF mode = "own" THEN Tests[i].tags ELSE InheritedTags(Tests[i]) :
         i \in {j \in DOMAIN Tests : Tests[j].file = file}}
    \cup {Tests[i].suite : i \in {j \in DOMAIN Tests : Tests[j].file = file}}

PrefilterModes == {"own", "effective"}

\* env.grepFilterSpecs === true and a tag filter is given
PrefilterApplies(cfg) == cfg.env.grepFilterSpecs = TRUE /\ GrepTagsOf(cfg) # <<>>

\* registerCypressGrep(config): with grepFilterSpecs and a tag filter, the
\* spec files with a matching suite or test become specPattern; when no file
\* matches, specPattern is left alone
RegisterCypressGrep(cfg, mode) ==
    IF PrefilterApplies(cfg)
    THEN LET parsedGrep == ParseTagsGrep(GrepTagsOf(cfg))
             greppedSpecs ==
                 SelectSeq(SpecFiles,
                           LAMBDA file : \E tags \in SourceTagLists(file, mode) :
                                            ShouldTestRunTags(parsedGrep, tags))
         IN IF greppedSpecs # <<>> THEN [cfg EXCEPT !.specPattern = greppedSpecs] ELSE cfg
    ELSE cfg

\* the tests of the spec files the run loads, in order
DiscoveredTests(cfg) ==
    LET files == IF cfg.specPattern = SpecGlob THEN SpecFiles ELSE cfg.specPattern
    IN SelectSeq(Tests, LAMBDA t : \E i \in DOMAIN files : files[i] = t.file)

\* variant: a test is registered only when a filter is given and matches
TestIncludedOnlyOnMatch(cfg, t) ==
    /\ GrepTagsOf(cfg) # <<>>
    /\ ShouldTestRunTags(ParseTagsGrep(GrepTagsOf(cfg)), EffectiveTags(t))

\* the support file's wrapper of it(): without a filter every test is
\* registered; with one, a test is registered when the filter matches its
\* effective tags
TestIncluded(cfg, t) ==
    \/ GrepTagsOf(cfg) = <<>>
    \/ ShouldTestRunTags(ParseTagsGrep(GrepTagsOf(cfg)), EffectiveTags(t))

\* ------------------------------------------------------------------------
\* Inputs of a run
\* ------------------------------------------------------------------------
\* "no such key"
Absent == "<absent>"

\* --env environment=<name>; "uat" has no config file
EnvironmentArgs == {Absent, "", "local", "dev", "qa", "staging", "production", "uat"}

\* --env username=<value>
UsernameArgs == {Absent, "cli@example.com"}

CliEnv(e, u) ==
    [k \in {x \in {"environment", "username"} :
                 (x = "environment" /\ e # Absent) \/ (x = "username" /\ u # Absent)} |->
        IF k = "environment" THEN e ELSE u]

CliEnvs == {CliEnv(e, u) : e \in EnvironmentArgs, u \in UsernameArgs}

\* the variables of the process environment (.env file, shell)
ProcessEnvs ==
    {EmptyObject,
     [QA_USERNAME |-> "qa-user@example.com", QA_PASSWORD |-> "QaSecret1!"],
     [DEV_USERNAME |-> "", PROD_PASSWORD |-> "ProdSecret1!"],
     [STAGING_USERNAME |-> "stg-user@example.com", STAGING_PASSWORD |-> "",
      DEV_PASSWORD |-> "DevSecret1!", PROD_USERNAME |-> ""]}

\* arguments of cy.login
\* tag filters given as --env grepTags=...: every string of up to
\* MaxFilterTokens pieces, and the filters of the documentation
FilterPieces == {"@smoke", "@critical", "@skip", " ", "+", "-"}

DocumentedFilters ==
    { <<"@smoke", "+", "@critical">>,
      <<"@smoke", " ", "@api">>,
      <<"@smoke", " ", "-", "@skip">> }

OtherFilters ==
    { <<"@SMOKE", "+", "@Critical">>,
      <<"smoke", "+", "critical">>,
      <<"@">>,
      <<"@smoke", ",", "@critical">>,
      <<"@smoke", "+", "-", "@skip", " ", "@critical">>,
      <<"@regression", " ", "-", "-", "@critical">> }

Filters ==
    UNION {[1..n -> FilterPieces] : n \in 0..MaxFilterTokens}
      \cup DocumentedFilters \cup OtherFilters

Usernames == {DefaultUsername, "admin@example.com"}
Passwords == {DefaultPassword, NewPassword}

\* variant: the session is keyed by the username alone
SessionIdByUsername(username, password) == <<username>>

\* the id cy.session is given for a login: [username, password]
SessionId(username, password) == <<username, password>>

SessionIds == {SessionId(u, p) : u \in Usernames, p \in Passwords}

\* sequences of at most n login calls
LoginCalls(n) == UNION {[1..m -> Usernames \X Passwords] : m \in 0..n}

\* browser state without any authenticated session (cookies cleared)
NoSession == <<0, 0>>

\* retryWithBackoff(fn, maxRetries, delay): the arguments tried and the
\* values and errors fn may settle with
MaxRetriesArgs == -1..MaxRetries
DelayArgs == {0, 100, 1000}
FnValues == {"value-a", "value-b"}
FnErrors == {"error-a", "error-b"}

\* a promise: pending, resolved with a value, rejected with an error
Pending == [state |-> "pending", value |-> Undefined]
Resolved(v) == [state |-> "resolved", value |-> v]
Rejected(e) == [state |-> "rejected", value |-> e]

\* this.token = null
Null == "null"

\* the ApiHelper objects a test creates, by the name of their variable
ApiHelpers == {"api", "adminApi"}
NotConstructed == [constructed |-> FALSE, baseUrl |-> Undefined, token |-> Null]

\* the arguments and server answers tried
BaseUrlArgs == {Undefined, "https://custom-api.com"}
Tokens == {"", "token-a", "token-b"}
Methods == {"GET", "POST", "PUT", "PATCH", "DELETE"}
Statuses == {200, 404, 500}

\* no cy.request has run
NoRequest ==
    [via |-> "", method |-> "", url |-> "", headers |-> EmptyObject,
     failOnStatusCode |-> TRUE, status |-> 0, outcome |-> "none"]

VARIABLES
    processEnv,   \* process.env
    startConfig,  \* the config object as handed to setupNodeEvents
    config,       \* the config object (Cypress.config / Cypress.env)
    phase,        \* "boot" | "ready" | "fatal"
    error,        \* the error that ended the run, or Undefined
    specFile,     \* index of the spec file being run
    testsRun,     \* number of tests started in the run
    pc,           \* "idle" | "global" | "hooks" : position within a test
    queue,        \* the cy.login(username, password) commands enqueued, not yet run
    executing,    \* the session setups in execution
    sessions,     \* cy.session's store: session id -> saved session
    browser,      \* the session the browser holds (cookies), or NoSession
    serverPwd,    \* application under test: the password of each account
    log,          \* history: the cy.login commands finished in this spec file
    invoked,      \* history: the logins whose setup was invoked in the run
    nextTest,     \* number of declared tests the tag filter has been applied to
    selected,     \* the names of the tests registered to run
    evaluatedIn,  \* history: the phase in which tags were first matched against
                  \* the filter, or Undefined
    loaded,       \* history: the config module require() has loaded, or Undefined
    suiteLogin,   \* the running test's beforeEach calls cy.login
    maxRetries,   \* retryWithBackoff: argument maxRetries
    delay,        \* retryWithBackoff: argument delay (ms)
    loopI,        \* retryWithBackoff: the loop variable i
    retryPc,      \* retryWithBackoff: "idle" | "loop" | "calling" | "waiting" | "done"
    invocations,  \* history: number of invocations of fn
    attempts,     \* history: how each invocation of fn settled
    waits,        \* history: the arguments of wait(ms)
    promise,       \* the promise returned by retryWithBackoff
    helpers,      \* the ApiHelper instances: their fields baseUrl and token
    lastRequest,  \* the latest cy.request: its options and how it ended
    testFailure   \* why the running API test failed, or Undefined

vars == <<processEnv, startConfig, config, phase, error, specFile, testsRun, pc,
          queue, executing, sessions, browser, serverPwd, log, invoked,
          nextTest, selected, evaluatedIn, loaded, suiteLogin,
          maxRetries, delay, loopI, retryPc, invocations, attempts, waits, promise,
          helpers, lastRequest, testFailure>>

retryVars == <<maxRetries, delay, loopI, retryPc, invocations, attempts, waits, promise>>

apiVars == <<helpers, lastRequest, testFailure>>

runVars == <<specFile, testsRun, pc, queue, executing, sessions, browser, serverPwd,
             log, invoked, nextTest, selected, suiteLogin, retryVars, apiVars>>

InitRun ==
    /\ phase = "boot"
    /\ error = Undefined
    /\ specFile = 1
    /\ testsRun = 0
    /\ pc = "idle"
    /\ queue = <<>>
    /\ executing = {}
    /\ sessions = EmptyObject
    /\ browser = NoSession
    /\ serverPwd = [u \in Usernames |-> DefaultPassword]
    /\ log = {}
    /\ invoked = {}
    /\ nextTest = 0
    /\ selected = {}
    /\ evaluatedIn = Undefined
    /\ loaded = Undefined
    /\ suiteLogin = FALSE
    /\ maxRetries = 0
    /\ delay = 0
    /\ loopI = 0
    /\ retryPc = "idle"
    /\ invocations = 0
    /\ attempts = <<>>
    /\ waits = <<>>
    /\ promise = Pending
    /\ helpers = [h \in ApiHelpers |-> NotConstructed]
    /\ lastRequest = NoRequest
    /\ testFailure = Undefined

Init ==
    /\ processEnv \in ProcessEnvs
    /\ \E cliEnv \in CliEnvs : startConfig = ConfigFor(cliEnv)
    /\ config = startConfig
    /\ InitRun

\* a run against the qa environment
InitSession ==
    /\ processEnv = EmptyObject
    /\ startConfig = ConfigFor(CliEnv("qa", Absent))
    /\ config = startConfig
    /\ InitRun

\* a run with a tag filter: npx cypress run --env environment=qa,grepTags=...
\* with every filter, and the named filters with every environment
InitGrep ==
    /\ processEnv = EmptyObject
    /\ \E grepTags \in Filters, e \in EnvironmentArgs :
          /\ e = "qa" \/ grepTags \in DocumentedFilters \cup OtherFilters \cup {<<>>}
          /\ startConfig = ConfigFor(Spread(CliEnv(e, Absent), [grepTags |-> grepTags]))
    /\ config = startConfig
    /\ InitRun

\* ------------------------------------------------------------------------
\* setupNodeEvents: environment resolution
\* ------------------------------------------------------------------------
\* variant: no default environment
EnvironmentOfNoDefault(cfg) == Prop(cfg.env, "environment")

\* config.env.environment || 'local'
EnvironmentOf(cfg) == OrElse(Prop(cfg.env, "environment"), "local")

\* variant: a missing config file is not an error
RequireResolvesAny(name) == TRUE

\* require() finds the module ./cypress/config/<name>.config
RequireResolves(name) == name \in ConfigFiles

\* require() of a module that declares `export default X` returns the
\* module's exports object, whose one property is `default`
Require(name, penv) == [default |-> Overlay(name, penv)]

\* variant: the config object is rebuilt, so the declared command timeout
\* falls back to the runner's default
MergeConfigRebuilt(cfg, envConfig) ==
    [cfg EXCEPT !.baseUrl = Prop(envConfig, "baseUrl"),
                !.env = SpreadProp(cfg.env, envConfig, "env"),
                !.defaultCommandTimeout = 4000]

\* config.baseUrl = envConfig.baseUrl;
\* config.env = { ...config.env, ...envConfig.env };
MergeConfig(cfg, envConfig) ==
    [cfg EXCEPT !.baseUrl = Prop(envConfig, "baseUrl"),
                !.env = SpreadProp(cfg.env, envConfig, "env")]

SetupNodeEvents ==
    /\ phase = "boot"
    /\ \E mode \in PrefilterModes :
         LET grepped == RegisterCypressGrep(config, mode)
             environment == EnvironmentOf(grepped)
         IN IF RequireResolves(environment)
            THEN /\ config' = MergeConfig(grepped, Require(environment, processEnv))
                 /\ loaded' = environment
                 /\ phase' = "ready"
                 /\ error' = error
            ELSE /\ error' = "Cannot find module './cypress/config/" \o environment \o ".config'"
                 /\ phase' = "fatal"
                 /\ config' = grepped
                 /\ loaded' = loaded
    /\ evaluatedIn' = IF PrefilterApplies(config) THEN phase ELSE evaluatedIn
    /\ UNCHANGED <<processEnv, startConfig>>
    /\ UNCHANGED runVars

\* ------------------------------------------------------------------------
\* Loading the spec files: each declared test passes through the tag filter
\* ------------------------------------------------------------------------
\* spec files are loaded once setupNodeEvents has returned the config
RunStarted == phase = "ready"

\* it(name, { tags }, ...) under the support file's import of the plugin:
\* the test is registered or omitted (grepOmitFiltered)
RegisterTest ==
    /\ RunStarted
    /\ nextTest < Len(DiscoveredTests(config))
    /\ LET t == DiscoveredTests(config)[nextTest + 1]
       IN selected' = IF TestIncluded(config, t) THEN selected \cup {t.name} ELSE selected
    /\ nextTest' = nextTest + 1
    /\ evaluatedIn' = IF GrepTagsOf(config) # <<>> /\ evaluatedIn = Undefined
                      THEN phase ELSE evaluatedIn
    /\ UNCHANGED <<processEnv, startConfig, config, phase, error, loaded>>
    /\ UNCHANGED <<specFile, testsRun, pc, queue, executing, sessions, browser, serverPwd,
                   log, invoked, suiteLogin>>
    /\ UNCHANGED <<retryVars, apiVars>>

\* ------------------------------------------------------------------------
\* A test: global beforeEach, the suite's beforeEach, the test body
\* ------------------------------------------------------------------------
\* variant: the global hook leaves the cookies in place
GlobalBeforeEachKeepsCookies ==
    /\ phase = "ready"
    /\ pc = "idle"
    /\ testsRun < MaxTests
    /\ browser' = browser
    /\ pc' = "global"
    /\ testsRun' = testsRun + 1
    /\ UNCHANGED <<processEnv, startConfig, config, phase, error, nextTest, selected, evaluatedIn, loaded>>
    /\ UNCHANGED <<retryVars, apiVars>>
    /\ UNCHANGED <<specFile, queue, executing, sessions, serverPwd, log, invoked, suiteLogin>>

\* support/e2e.ts beforeEach: cy.clearCookies(); cy.clearLocalStorage();
GlobalBeforeEach ==
    /\ phase = "ready"
    /\ pc = "idle"
    /\ testsRun < MaxTests
    /\ browser' = NoSession
    /\ pc' = "global"
    /\ testsRun' = testsRun + 1
    /\ UNCHANGED <<processEnv, startConfig, config, phase, error, nextTest, selected, evaluatedIn, loaded>>
    /\ UNCHANGED <<retryVars, apiVars>>
    /\ UNCHANGED <<specFile, queue, executing, sessions, serverPwd, log, invoked, suiteLogin>>

\* the suite's beforeEach: its cy.login(username, password) calls are
\* enqueued in order (a suite without login enqueues none)
SuiteBeforeEach(calls) ==
    /\ pc = "global"
    /\ queue' = calls
    /\ suiteLogin' = (calls # <<>>)
    /\ pc' = "hooks"
    /\ UNCHANGED <<processEnv, startConfig, config, phase, error, nextTest, selected, evaluatedIn, loaded>>
    /\ UNCHANGED <<retryVars, apiVars>>
    /\ UNCHANGED <<specFile, testsRun, executing, sessions, browser, serverPwd, log, invoked>>

\* variant: a command starts while another is still running
CommandQueueAlwaysIdle == TRUE

\* Cypress runs the enqueued commands one at a time
CommandQueueIdle == executing = {}

\* variant: saved sessions are never found
CacheHitNever(id) == FALSE

\* cy.session finds a saved session under the id
CacheHit(id) == id \in DOMAIN sessions

LogEntry(username, password, result, sid) ==
    [username |-> username, password |-> password, result |-> result, sid |-> sid]

\* cy.login: cy.session(id, setup) clears the browser, then restores the
\* saved session of that id, or starts setup when there is none
Login ==
    /\ pc = "hooks"
    /\ queue # <<>>
    /\ CommandQueueIdle
    /\ LET username == Head(queue)[1]
           password == Head(queue)[2]
           id == SessionId(username, password)
       IN /\ queue' = Tail(queue)
          /\ IF CacheHit(id)
             THEN /\ browser' = sessions[id].sid
                  /\ log' = log \cup {LogEntry(username, password, "restored", sessions[id].sid)}
                  /\ executing' = executing
                  /\ invoked' = invoked
             ELSE /\ browser' = NoSession
                  /\ executing' = executing \cup
                        {[pos |-> Len(queue), username |-> username, password |-> password]}
                  /\ invoked' = invoked \cup {<<username, password>>}
                  /\ log' = log
    /\ UNCHANGED <<processEnv, startConfig, config, phase, error, nextTest, selected, evaluatedIn, loaded>>
    /\ UNCHANGED <<retryVars, apiVars>>
    /\ UNCHANGED <<specFile, testsRun, pc, sessions, serverPwd, suiteLogin>>

\* the application accepts the credentials typed into the login form
CredentialsValid(username, password) == serverPwd[username] = password

\* variant: the cookies are cleared after the login instead of before it
SetupSucceedsThenCleared(c) ==
    /\ c \in executing
    /\ CredentialsValid(c.username, c.password)
    /\ LET sid == <<testsRun, c.pos>>
           id == SessionId(c.username, c.password)
       IN /\ sessions' = Spread(sessions, [k \in {id} |-> [sid |-> sid, username |-> c.username]])
          /\ browser' = NoSession
          /\ log' = log \cup {LogEntry(c.username, c.password, "created", sid)}
    /\ executing' = executing \ {c}
    /\ UNCHANGED <<processEnv, startConfig, config, phase, error, nextTest, selected, evaluatedIn, loaded>>
    /\ UNCHANGED <<retryVars, apiVars>>
    /\ UNCHANGED <<specFile, testsRun, pc, queue, serverPwd, invoked, suiteLogin>>

\* setup ran to its end: the session is saved under the id
SetupSucceeds(c) ==
    /\ c \in executing
    /\ CredentialsValid(c.username, c.password)
    /\ LET sid == <<testsRun, c.pos>>
           id == SessionId(c.username, c.password)
       IN /\ sessions' = Spread(sessions, [k \in {id} |-> [sid |-> sid, username |-> c.username]])
          /\ browser' = sid
          /\ log' = log \cup {LogEntry(c.username, c.password, "created", sid)}
    /\ executing' = executing \ {c}
    /\ UNCHANGED <<processEnv, startConfig, config, phase, error, nextTest, selected, evaluatedIn, loaded>>
    /\ UNCHANGED <<retryVars, apiVars>>
    /\ UNCHANGED <<specFile, testsRun, pc, queue, serverPwd, invoked, suiteLogin>>

\* variant: the failed setup leaves an entry under the id
SetupFailsCached(c) ==
    /\ c \in executing
    /\ executing' = executing \ {c}
    /\ log' = log \cup {LogEntry(c.username, c.password, "failed", NoSession)}
    /\ sessions' = Spread(sessions, [k \in {SessionId(c.username, c.password)} |->
                                        [sid |-> NoSession, username |-> c.username]])
    /\ queue' = <<>>
    /\ pc' = "idle"
    /\ suiteLogin' = FALSE
    /\ UNCHANGED <<processEnv, startConfig, config, phase, error, nextTest, selected, evaluatedIn, loaded>>
    /\ UNCHANGED <<retryVars, apiVars>>
    /\ UNCHANGED <<specFile, testsRun, browser, serverPwd, invoked>>

\* a command of setup failed (wrong credentials, timeout, failed assertion):
\* nothing is saved and the test ends as failed
SetupFails(c) ==
    /\ c \in executing
    /\ executing' = executing \ {c}
    /\ log' = log \cup {LogEntry(c.username, c.password, "failed", NoSession)}
    /\ queue' = <<>>
    /\ pc' = "idle"
    /\ suiteLogin' = FALSE
    /\ UNCHANGED <<processEnv, startConfig, config, phase, error, nextTest, selected, evaluatedIn, loaded>>
    /\ UNCHANGED <<retryVars, apiVars>>
    /\ UNCHANGED <<specFile, testsRun, sessions, browser, serverPwd, invoked>>

\* a test body that leaves sessions and accounts alone
PlainTest ==
    /\ pc = "hooks"
    /\ queue = <<>>
    /\ CommandQueueIdle
    /\ pc' = "idle"
    /\ suiteLogin' = FALSE
    /\ UNCHANGED <<processEnv, startConfig, config, phase, error, nextTest, selected, evaluatedIn, loaded>>
    /\ UNCHANGED <<retryVars, apiVars>>
    /\ UNCHANGED <<specFile, testsRun, queue, executing, sessions, browser, serverPwd, log, invoked>>

\* the user of the session the browser holds
BrowserUser ==
    CHOOSE u \in Usernames :
        \E id \in DOMAIN sessions : sessions[id].sid = browser /\ sessions[id].username = u

\* variant: the test also stores the new password with Cypress.env
ChangePasswordTestWritesEnv(current) ==
    /\ pc = "hooks"
    /\ queue = <<>>
    /\ CommandQueueIdle
    /\ browser # NoSession
    /\ serverPwd' = IF serverPwd[BrowserUser] = current
                    THEN [serverPwd EXCEPT ![BrowserUser] = NewPassword]
                    ELSE serverPwd
    /\ config' = [config EXCEPT !.env = Spread(config.env, [password |-> NewPassword])]
    /\ pc' = "idle"
    /\ suiteLogin' = FALSE
    /\ UNCHANGED <<processEnv, startConfig, phase, error, nextTest, selected, evaluatedIn, loaded>>
    /\ UNCHANGED <<retryVars, apiVars>>
    /\ UNCHANGED <<specFile, testsRun, queue, executing, sessions, browser, log, invoked>>

\* 'should change password successfully': the logged-in user submits the
\* current password and the new one 'NewPassword123!'
ChangePasswordTest(current) ==
    /\ pc = "hooks"
    /\ queue = <<>>
    /\ CommandQueueIdle
    /\ browser # NoSession
    /\ serverPwd' = IF serverPwd[BrowserUser] = current
                    THEN [serverPwd EXCEPT ![BrowserUser] = NewPassword]
                    ELSE serverPwd
    /\ pc' = "idle"
    /\ suiteLogin' = FALSE
    /\ UNCHANGED <<processEnv, startConfig, config, phase, error, nextTest, selected, evaluatedIn, loaded>>
    /\ UNCHANGED <<retryVars, apiVars>>
    /\ UNCHANGED <<specFile, testsRun, queue, executing, sessions, browser, log, invoked>>

\* the runner moves to the next spec file: the sessions saved by cy.session
\* (no cacheAcrossSpecs option) are cleared, the command log starts anew
NextSpecFile ==
    /\ phase = "ready"
    /\ pc = "idle"
    /\ specFile < NumSpecFiles
    /\ specFile' = specFile + 1
    /\ sessions' = EmptyObject
    /\ browser' = NoSession
    /\ log' = {}
    /\ UNCHANGED <<processEnv, startConfig, config, phase, error, nextTest, selected, evaluatedIn, loaded>>
    /\ UNCHANGED <<retryVars, apiVars>>
    /\ UNCHANGED <<testsRun, pc, queue, executing, serverPwd, invoked, suiteLogin>>

\* ------------------------------------------------------------------------
\* ApiHelper and cy.apiRequest
\* ------------------------------------------------------------------------
\* a run against qa, with apiUrl and authToken given or not with --env
InitApi ==
    /\ processEnv = EmptyObject
    /\ startConfig \in
          { ConfigFor(CliEnv("qa", Absent)),
            ConfigFor(Spread(CliEnv("qa", Absent), [apiUrl |-> "https://api.cli.example.com"])),
            ConfigFor(Spread(CliEnv("qa", Absent), [apiUrl |-> "https://api.cli.example.com",
                                                    authToken |-> "token-a"])) }
    /\ config = startConfig
    /\ InitRun

\* a string in a condition: null, undefined and '' are falsy
Truthy(v) == v \notin {Null, Undefined, ""}

ContentType == [k \in {"Content-Type"} |-> "application/json"]

\* variant: the header is added for every token that is not null
GetHeadersNotNull(token) ==
    IF token # Null
    THEN Spread(ContentType, [Authorization |-> "Bearer " \o token])
    ELSE ContentType

\* ApiHelper.getHeaders, from this.token
GetHeaders(token) ==
    IF Truthy(token)
    THEN Spread(ContentType, [Authorization |-> "Bearer " \o token])
    ELSE ContentType

\* variant: cy.request's default, an error status fails the command
FailOnStatusCodeDefault == TRUE

\* failOnStatusCode: false, in every request of ApiHelper and cy.apiRequest
FailOnStatusCode == FALSE

\* cy.request(options) with the server answering `status`: a url that is
\* not fully qualified (no baseUrl to complete it) is an error; an answer
\* outside 2xx/3xx is an error only with failOnStatusCode
CyRequest(via, options, qualified, status) ==
    LET outcome == IF ~qualified THEN "url"
                   ELSE IF options.failOnStatusCode /\ status \notin 200..399 THEN "status"
                   ELSE "response"
    IN /\ lastRequest' = [via |-> via, method |-> options.method, url |-> options.url,
                          headers |-> options.headers,
                          failOnStatusCode |-> options.failOnStatusCode,
                          status |-> IF qualified THEN status ELSE 0,
                          outcome |-> outcome]
       /\ testFailure' = IF outcome = "response" THEN testFailure ELSE outcome

\* new ApiHelper(baseUrl?)
NewApiHelper(h, baseUrl) ==
    /\ phase = "ready"
    /\ ~helpers[h].constructed
    /\ helpers' = [helpers EXCEPT ![h] =
                      [constructed |-> TRUE,
                       baseUrl |-> OrElse(baseUrl, Prop(config.env, "apiUrl")),
                       token |-> Null]]
    /\ UNCHANGED <<lastRequest, testFailure>>
    /\ UNCHANGED <<processEnv, startConfig, config, phase, error, nextTest, selected,
                   evaluatedIn, loaded>>
    /\ UNCHANGED <<specFile, testsRun, pc, queue, executing, sessions, browser, serverPwd,
                   log, invoked, suiteLogin, retryVars>>

\* ApiHelper.setToken(token)
SetToken(h, token) ==
    /\ helpers[h].constructed
    /\ testFailure = Undefined
    /\ helpers' = [helpers EXCEPT ![h].token = token]
    /\ UNCHANGED <<lastRequest, testFailure>>
    /\ UNCHANGED <<processEnv, startConfig, config, phase, error, nextTest, selected,
                   evaluatedIn, loaded>>
    /\ UNCHANGED <<specFile, testsRun, pc, queue, executing, sessions, browser, serverPwd,
                   log, invoked, suiteLogin, retryVars>>

\* ApiHelper.get / post / put / patch / delete (endpoint '/users')
ApiHelperRequest(h, method, status) ==
    /\ helpers[h].constructed
    /\ testFailure = Undefined
    /\ CyRequest(h,
                 [method |-> method,
                  url |-> helpers[h].baseUrl \o "/users",
                  headers |-> GetHeaders(helpers[h].token),
                  failOnStatusCode |-> FailOnStatusCode],
                 helpers[h].baseUrl # Undefined,
                 status)
    /\ UNCHANGED helpers
    /\ UNCHANGED <<processEnv, startConfig, config, phase, error, nextTest, selected,
                   evaluatedIn, loaded>>
    /\ UNCHANGED <<specFile, testsRun, pc, queue, executing, sessions, browser, serverPwd,
                   log, invoked, suiteLogin, retryVars>>

\* cy.apiRequest(method, url, body) (url '/users')
CyApiRequest(method, status) ==
    /\ phase = "ready"
    /\ testFailure = Undefined
    /\ LET token == Prop(config.env, "authToken")
           apiUrl == Prop(config.env, "apiUrl")
       IN CyRequest("cy.apiRequest",
                    [method |-> method,
                     url |-> apiUrl \o "/users",
                     headers |-> Spread([Authorization |->
                                            IF Truthy(token) THEN "Bearer " \o token ELSE ""],
                                        ContentType),
                     failOnStatusCode |-> FailOnStatusCode],
                    apiUrl # Undefined,
                    status)
    /\ UNCHANGED helpers
    /\ UNCHANGED <<processEnv, startConfig, config, phase, error, nextTest, selected,
                   evaluatedIn, loaded>>
    /\ UNCHANGED <<specFile, testsRun, pc, queue, executing, sessions, browser, serverPwd,
                   log, invoked, suiteLogin, retryVars>>

\* ApiHelper.validateStatus(response, expectedStatus) on the response of
\* the latest request: expect(response.status).to.eq(expectedStatus)
ValidateStatus(expectedStatus) ==
    /\ lastRequest.outcome = "response"
    /\ testFailure = Undefined
    /\ lastRequest.status # expectedStatus
    /\ testFailure' = "assertion"
    /\ UNCHANGED <<helpers, lastRequest>>
    /\ UNCHANGED <<processEnv, startConfig, config, phase, error, nextTest, selected,
                   evaluatedIn, loaded>>
    /\ UNCHANGED <<specFile, testsRun, pc, queue, executing, sessions, browser, serverPwd,
                   log, invoked, suiteLogin, retryVars>>

\* the next test of the spec file starts; the helpers made in before() stay
NextApiTest ==
    /\ lastRequest # NoRequest
    /\ lastRequest' = NoRequest
    /\ testFailure' = Undefined
    /\ UNCHANGED helpers
    /\ UNCHANGED <<processEnv, startConfig, config, phase, error, nextTest, selected,
                   evaluatedIn, loaded>>
    /\ UNCHANGED <<specFile, testsRun, pc, queue, executing, sessions, browser, serverPwd,
                   log, invoked, suiteLogin, retryVars>>

\* ------------------------------------------------------------------------
\* retryWithBackoff(fn, maxRetries, delay)
\* ------------------------------------------------------------------------
\* variant: the body runs once before the loop condition is looked at
LoopConditionAfterBody(n, max) == n < max \/ n = 0

\* for (...; i < maxRetries; ...)
LoopCondition(n, max) == n < max

\* variant: no attempt is taken to be the last one
LastAttemptNever(n, max) == FALSE

\* i === maxRetries - 1
LastAttempt(n, max) == n = max - 1

\* variant: the wait grows linearly
BackoffLinear(d, n) == d * (n + 1)

\* delay * Math.pow(2, i)
Backoff(d, n) == d * 2 ^ n

\* the loop with i = n: fn is invoked, or the loop ends and the function
\* returns without a value
Iterate(n, max) ==
    /\ loopI' = n
    /\ IF LoopCondition(n, max)
       THEN /\ invocations' = invocations + 1
            /\ retryPc' = "calling"
            /\ promise' = promise
       ELSE /\ invocations' = invocations
            /\ retryPc' = "done"
            /\ promise' = Resolved(Undefined)

\* the call, up to its first await
RetryWithBackoff(m, d) ==
    /\ retryPc = "idle"
    /\ maxRetries' = m
    /\ delay' = d
    /\ Iterate(0, m)
    /\ UNCHANGED <<attempts, waits>>
    /\ UNCHANGED <<processEnv, startConfig, config, phase, error, nextTest, selected,
                   evaluatedIn, loaded>>
    /\ UNCHANGED <<specFile, testsRun, pc, queue, executing, sessions, browser, serverPwd,
                   log, invoked, suiteLogin, apiVars>>

\* variant: the value of fn is not returned and the loop goes on
FnResolvesNoReturn(v) ==
    /\ retryPc = "calling"
    /\ attempts' = Append(attempts, [ok |-> TRUE, value |-> v])
    /\ Iterate(loopI + 1, maxRetries)
    /\ UNCHANGED <<maxRetries, delay, waits>>
    /\ UNCHANGED <<processEnv, startConfig, config, phase, error, nextTest, selected,
                   evaluatedIn, loaded>>
    /\ UNCHANGED <<specFile, testsRun, pc, queue, executing, sessions, browser, serverPwd,
                   log, invoked, suiteLogin, apiVars>>

\* return await fn(): fn resolved
FnResolves(v) ==
    /\ retryPc = "calling"
    /\ attempts' = Append(attempts, [ok |-> TRUE, value |-> v])
    /\ promise' = Resolved(v)
    /\ retryPc' = "done"
    /\ UNCHANGED <<maxRetries, delay, loopI, invocations, waits>>
    /\ UNCHANGED <<processEnv, startConfig, config, phase, error, nextTest, selected,
                   evaluatedIn, loaded>>
    /\ UNCHANGED <<specFile, testsRun, pc, queue, executing, sessions, browser, serverPwd,
                   log, invoked, suiteLogin, apiVars>>

\* catch (error): fn rejected; the last attempt's error is thrown, after
\* an earlier attempt wait(delay * 2^i) starts
FnRejects(e) ==
    /\ retryPc = "calling"
    /\ attempts' = Append(attempts, [ok |-> FALSE, value |-> e])
    /\ IF LastAttempt(loopI, maxRetries)
       THEN /\ promise' = Rejected(e)
            /\ retryPc' = "done"
            /\ waits' = waits
       ELSE /\ waits' = Append(waits, Backoff(delay, loopI))
            /\ retryPc' = "waiting"
            /\ promise' = promise
    /\ UNCHANGED <<maxRetries, delay, loopI, invocations>>
    /\ UNCHANGED <<processEnv, startConfig, config, phase, error, nextTest, selected,
                   evaluatedIn, loaded>>
    /\ UNCHANGED <<specFile, testsRun, pc, queue, executing, sessions, browser, serverPwd,
                   log, invoked, suiteLogin, apiVars>>

\* the timer of wait(ms) fired: i++ and the loop goes on
WaitElapsed ==
    /\ retryPc = "waiting"
    /\ Iterate(loopI + 1, maxRetries)
    /\ UNCHANGED <<maxRetries, delay, attempts, waits>>
    /\ UNCHANGED <<processEnv, startConfig, config, phase, error, nextTest, selected,
                   evaluatedIn, loaded>>
    /\ UNCHANGED <<specFile, testsRun, pc, queue, executing, sessions, browser, serverPwd,
                   log, invoked, suiteLogin, apiVars>>

\* ------------------------------------------------------------------------
\* Specifications
\* ------------------------------------------------------------------------
\* runs whose suites log in
Next ==
    \/ SetupNodeEvents
    \/ GlobalBeforeEach
    \/ \E calls \in LoginCalls(MaxLogins) : SuiteBeforeEach(calls)
    \/ Login
    \/ \E c \in executing : SetupSucceeds(c)
    \/ \E c \in executing : SetupFails(c)
    \/ PlainTest
    \/ \E current \in Passwords : ChangePasswordTest(current)
    \/ NextSpecFile

Spec == InitSession /\ [][Next]_vars

\* every invocation, runs whose suites do not log in
NextResolve ==
    \/ SetupNodeEvents
    \/ GlobalBeforeEach
    \/ SuiteBeforeEach(<<>>)
    \/ PlainTest
    \/ NextSpecFile

SpecResolve == Init /\ [][NextResolve]_vars

\* tag filtering: resolution, then the tests of the loaded spec files
NextGrep ==
    \/ SetupNodeEvents
    \/ RegisterTest

SpecGrep == InitGrep /\ [][NextGrep]_vars

\* API tests: helpers, tokens, requests, validations
NextApi ==
    \/ SetupNodeEvents
    \/ \E h \in ApiHelpers, baseUrl \in BaseUrlArgs : NewApiHelper(h, baseUrl)
    \/ \E h \in ApiHelpers, token \in Tokens : SetToken(h, token)
    \/ \E h \in ApiHelpers, method \in Methods, status \in Statuses :
          ApiHelperRequest(h, method, status)
    \/ \E method \in Methods, status \in Statuses : CyApiRequest(method, status)
    \/ \E expectedStatus \in Statuses : ValidateStatus(expectedStatus)
    \/ NextApiTest

SpecApi == InitApi /\ [][NextApi]_vars

\* a call of retryWithBackoff
NextRetry ==
    \/ \E m \in MaxRetriesArgs, d \in DelayArgs : RetryWithBackoff(m, d)
    \/ \E v \in FnValues : FnResolves(v)
    \/ \E e \in FnErrors : FnRejects(e)
    \/ WaitElapsed

SpecRetry == InitSession /\ [][NextRetry]_vars

\* ------------------------------------------------------------------------
\* Properties of the session cache
\* ------------------------------------------------------------------------
Calls == Usernames \X Passwords

\* the log entries of the cy.login(username, password) commands
EntriesOf(username, password) ==
    {e \in log : e.username = username /\ e.password = password}

\* this step starts the command cy.login(username, password)
LoginStep(username, password) ==
    /\ pc = "hooks"
    /\ queue # <<>>
    /\ Head(queue) = <<username, password>>
    /\ queue' = Tail(queue)
    /\ pc' = "hooks"

\* this step invokes setup for cy.login(username, password)
SetupInvokedStep(username, password) ==
    \E c \in executing' \ executing : c.username = username /\ c.password = password

\* the entries of the commands that ended with a session in the browser
Successes == {e \in log : e.result # "failed"}

FailedOnly(username, password) ==
    /\ EntriesOf(username, password) # {}
    /\ \A e \in EntriesOf(username, password) : e.result = "failed"

\* C2: a failing setup saves nothing under the key, and while setup has only
\* failed for (username, password), a cy.login with an equal key invokes
\* setup again.
C2_FailureNotCached ==
    [][\A call \in Calls :
         /\ (\E c \in executing \ executing' :
                 /\ c.username = call[1] /\ c.password = call[2]
                 /\ LogEntry(call[1], call[2], "failed", NoSession) \in log' \ log)
              => SessionId(call[1], call[2]) \notin DOMAIN sessions'
         /\ (FailedOnly(call[1], call[2]) /\ LoginStep(call[1], call[2]))
              => SetupInvokedStep(call[1], call[2])]_vars

\* setup runs again after it failed for the same key
C2_Witness ==
    \E c \in executing : FailedOnly(c.username, c.password)

\* C3: setup is never in execution twice at once for one (username, password),
\* and within a spec file a session is created at most once per key.
C3_NoConcurrentSetup ==
    /\ \A c1, c2 \in executing :
          (c1.username = c2.username /\ c1.password = c2.password) => c1 = c2
    /\ \A e1, e2 \in log :
          (/\ e1.result = "created" /\ e2.result = "created"
           /\ e1.username = e2.username /\ e1.password = e2.password)
            => e1.sid = e2.sid

\* a second cy.login with the same key is enqueued while setup runs
C3_Witness ==
    \E c \in executing :
        queue # <<>> /\ Head(queue) = <<c.username, c.password>>

\* C4 (as stated): a cy.login with credentials that are no longer the account's
\* (the password was changed since) does not receive a saved session.
C4_OldSessionNotRestored ==
    [][\A call \in Calls :
         (LoginStep(call[1], call[2]) /\ ~CredentialsValid(call[1], call[2]))
           => browser' = NoSession]_vars

C6_NoRawPasswordInKey ==
    \A id \in DOMAIN sessions : \A i \in DOMAIN id : id[i] \notin Passwords

\* ------------------------------------------------------------------------
\* Properties of the environment resolution
\* ------------------------------------------------------------------------
\* the environment the run was invoked for
RequestedEnvironment == EnvironmentOf(startConfig)

\* the overlay declared by the requested environment's config file
RequestedOverlay == Overlay(RequestedEnvironment, processEnv)

\* C7: when the requested environment has no config file, resolution fails
\* with an error and no test of the run starts.
C7_UnknownEnvironmentFatal ==
    RequestedEnvironment \notin ConfigFiles
      => /\ phase \in {"boot", "fatal"}
         /\ phase = "fatal" => error # Undefined
         /\ testsRun = 0 /\ pc = "idle" /\ log = {}

C7_Witness ==
    /\ RequestedEnvironment \notin ConfigFiles
    /\ phase = "fatal"

\* C8 (as stated): after resolution, baseUrl is the baseUrl the environment's
\* overlay declares.
C8_BaseUrlFromOverlay ==
    phase = "ready" => config.baseUrl = RequestedOverlay.baseUrl

C10_EnvMergedOverlayWins ==
    phase = "ready"
      => \A k \in DOMAIN config.env :
            IF k \in DOMAIN RequestedOverlay.env
            THEN config.env[k] = RequestedOverlay.env[k]
            ELSE config.env[k] = startConfig.env[k]

\* C11 (as stated): after resolution every top-level key of the overlay other
\* than env (merged key by key, C10) has the overlay's value in the config.
C11_OverlayKeysReplaceBase ==
    phase = "ready"
      => \A k \in (DOMAIN RequestedOverlay) \ {"env"} : config[k] = RequestedOverlay[k]

\* C13: once resolution has completed, no step of the run changes the config.
C13_ConfigImmutable ==
    [][phase = "ready" => config' = config]_vars

\* a password-change test has run after resolution
C13_Witness ==
    /\ phase = "ready"
    /\ \E u \in Usernames : serverPwd[u] = NewPassword

\* the external variables an overlay reads, and its fallback
CredentialVars ==
    [dev |-> [username |-> "DEV_USERNAME", password |-> "DEV_PASSWORD",
              fallbackUsername |-> "test@example.com", fallbackPassword |-> "TestPassword123!"],
     qa |-> [username |-> "QA_USERNAME", password |-> "QA_PASSWORD",
             fallbackUsername |-> "test@example.com", fallbackPassword |-> "TestPassword123!"],
     staging |-> [username |-> "STAGING_USERNAME", password |-> "STAGING_PASSWORD",
                  fallbackUsername |-> "test@example.com", fallbackPassword |-> "TestPassword123!"],
     production |-> [username |-> "PROD_USERNAME", password |-> "PROD_PASSWORD",
                     fallbackUsername |-> "", fallbackPassword |-> ""]]

\* the external variable is set and not empty
IsSet(name) == name \in DOMAIN processEnv /\ processEnv[name] # ""

\* C20: each overlay's username and password are the external variable when it
\* is set and non-empty, and the overlay's fallback otherwise.
C20_CredentialsFromEnvOrFallback ==
    \A name \in DOMAIN CredentialVars :
        LET v == CredentialVars[name]
            o == Overlay(name, processEnv).env
        IN /\ o.username = IF IsSet(v.username) THEN processEnv[v.username]
                                                ELSE v.fallbackUsername
           /\ o.password = IF IsSet(v.password) THEN processEnv[v.password]
                                                ELSE v.fallbackPassword

\* an overlay was loaded with one variable set to the empty string and
\* another set to a value
C20_Witness ==
    /\ phase = "ready"
    /\ RequestedEnvironment = "staging"
    /\ IsSet("STAGING_USERNAME")
    /\ "STAGING_PASSWORD" \in DOMAIN processEnv /\ ~IsSet("STAGING_PASSWORD")

\* ------------------------------------------------------------------------
\* Tag filter claims
\* ------------------------------------------------------------------------
\* the filter given at invocation
GrepTags == GrepTagsOf(startConfig)

\* every test of the loaded spec files has passed through the filter
Registered == phase = "ready" /\ nextTest = Len(DiscoveredTests(config))

\* the declared tests whose describe and own tags, taken together, include
\* every tag of with and no tag of without
TestsTagged(with, without) ==
    {Tests[i].name :
        i \in {j \in DOMAIN Tests : /\ with \subseteq Tests[j].suite \cup Tests[j].tags
                                     /\ without \cap (Tests[j].suite \cup Tests[j].tags) = {}}}

\* C12 (as stated): tags are matched against the filter, and tests are
\* registered or run, only once environment resolution has completed.
C12_ResolvedBeforeEvaluation ==
    /\ evaluatedIn \in {Undefined, "ready"}
    /\ nextTest > 0 \/ testsRun > 0 => phase = "ready"

\* Boolean expressions over tags
Literal(t) == [op |-> "literal", tag |-> t]
Not(e) == [op |-> "not", e |-> e]
And(e1, e2) == [op |-> "and", e1 |-> e1, e2 |-> e2]
Or(e1, e2) == [op |-> "or", e1 |-> e1, e2 |-> e2]
MatchAll == [op |-> "true"]

RECURSIVE Evaluate(_, _)
Evaluate(e, T) ==
    CASE e.op = "literal" -> e.tag \in T
      [] e.op = "not" -> ~Evaluate(e.e, T)
      [] e.op = "and" -> Evaluate(e.e1, T) /\ Evaluate(e.e2, T)
      [] e.op = "or" -> Evaluate(e.e1, T) \/ Evaluate(e.e2, T)
      [] e.op = "true" -> TRUE

TermExpression(p) == IF p.invert THEN Not(Literal(p.tag)) ELSE Literal(p.tag)

RECURSIVE AndExpression(_)
AndExpression(terms) ==
    IF Len(terms) = 1 THEN TermExpression(terms[1])
    ELSE And(TermExpression(Head(terms)), AndExpression(Tail(terms)))

RECURSIVE FilterExpression(_)
\* the expression a parsed filter stands for
FilterExpression(parsed) ==
    IF parsed = <<>> THEN MatchAll
    ELSE IF Len(parsed) = 1 THEN AndExpression(parsed[1])
    ELSE Or(AndExpression(Head(parsed)), FilterExpression(Tail(parsed)))

TagUniverse == {"@smoke", "@critical", "@skip"}

\* C14: for the filter of the run and every tag set T, evaluation of the
\* parsed filter agrees with the Boolean meaning of its expression (a literal
\* is membership in T; and, or, not are conjunction, disjunction, negation),
\* and the tests registered are those of the loaded files that satisfy it.
C14_EvaluateIsBoolean ==
    LET parsed == ParseTagsGrep(GrepTags)
    IN /\ \A T \in SUBSET TagUniverse :
             ShouldTestRunTags(parsed, T) = Evaluate(FilterExpression(parsed), T)
       /\ Registered =>
             selected = {DiscoveredTests(config)[i].name :
                            i \in {j \in DOMAIN DiscoveredTests(config) :
                                       LET t == DiscoveredTests(config)[j]
                                       IN Evaluate(FilterExpression(parsed), t.suite \cup t.tags)}}

C14_Witness ==
    /\ Registered
    /\ GrepTags = <<"@smoke", "+", "-", "@skip", " ", "@critical">>
    /\ "should create a new user" \in selected
    /\ "should delete account with confirmation" \in selected
    /\ "should get all users" \notin selected

SmokeAndCritical == <<"@smoke", "+", "@critical">>

LoginSuiteTests ==
    { "should display login page correctly",
      "should login successfully with valid credentials",
      "should show error message with invalid credentials",
      "should validate required fields" }

C16_SmokeNotSkipIsAnd ==
    GrepTags = <<"@smoke", " ", "-", "@skip">> /\ Registered
      => selected = TestsTagged({"@smoke"}, {"@skip"})

\* C17: with an empty filter every declared test is registered to run, and
\* the empty filter matches every tag set, the empty one included.
C17_EmptyFilterRunsAll ==
    /\ \A T \in SUBSET TagUniverse : ShouldTestRunTags(ParseTagsGrep(<<>>), T)
    /\ GrepTags = <<>> /\ phase = "ready"
         => /\ DiscoveredTests(config) = Tests
            /\ \A i \in 1..nextTest : Tests[i].name \in selected

C17_Witness ==
    /\ GrepTags = <<>>
    /\ Registered
    /\ selected = {Tests[i].name : i \in DOMAIN Tests}

\* C18 (as stated): "@SMOKE+@Critical" and "smoke+critical" parse to the
\* same structure as "@smoke+@critical" and select the same tests.
C18_CaseAndAtIrrelevant ==
    GrepTags \in {<<"@SMOKE", "+", "@Critical">>, <<"smoke", "+", "critical">>} /\ Registered
      => /\ ParseTagsGrep(GrepTags) = ParseTagsGrep(SmokeAndCritical)
         /\ selected = TestsTagged({"@smoke", "@critical"}, {})

\* an empty literal (a bare "@" or "+") or a dangling operator
Malformed(s) ==
    /\ s # <<>>
    /\ \/ s = <<"@">>
       \/ s[1] = "+"
       \/ s[Len(s)] \in {"+", "-"}

\* C19 (as stated): a malformed filter is fatal to the run: the run never
\* becomes ready and no test is registered to run.
C19_MalformedFilterFatal ==
    Malformed(GrepTags) => phase # "ready" /\ nextTest = 0 /\ selected = {}

\* ------------------------------------------------------------------------
\* retryWithBackoff claims
\* ------------------------------------------------------------------------
\* the attempts of fn that failed
FailedAttempts == {k \in DOMAIN attempts : ~attempts[k].ok}

\* C21: with maxRetries >= 1, an attempt that succeeds is the last
\* invocation of fn, and the call resolves with that attempt's value.
C21_StopsAtFirstSuccess ==
    maxRetries >= 1
      => \A k \in DOMAIN attempts :
            attempts[k].ok
              => /\ k = Len(attempts)
                 /\ invocations = k
                 /\ retryPc = "done"
                 /\ promise = Resolved(attempts[k].value)

C21_Witness ==
    /\ promise.state = "resolved"
    /\ Len(attempts) = 2
    /\ maxRetries = 3
    /\ invocations = 2

\* C22: with maxRetries >= 1, fn is never invoked more than maxRetries
\* times; when maxRetries attempts have failed the call is rejected with
\* the error of the last one, and it is rejected in no other case.
C22_RejectsWithLastError ==
    maxRetries >= 1
      => /\ invocations <= maxRetries
         /\ Cardinality(FailedAttempts) = maxRetries
              => /\ invocations = maxRetries
                 /\ retryPc = "done"
                 /\ promise = Rejected(attempts[maxRetries].value)
         /\ promise.state = "rejected" => Cardinality(FailedAttempts) = maxRetries

C22_Witness ==
    /\ promise.state = "rejected"
    /\ maxRetries = 3
    /\ attempts[1].value # attempts[3].value
    /\ promise.value = attempts[3].value

\* C23: the wait after failed attempt number i (from 0) is delay * 2^i ms;
\* every failed attempt but the one that rejects the call is followed by
\* a wait.
C23_ExponentialBackoff ==
    /\ \A k \in DOMAIN waits : waits[k] = delay * 2 ^ (k - 1)
    /\ Len(waits) = Cardinality(FailedAttempts)
                      - (IF promise.state = "rejected" THEN 1 ELSE 0)

C23_Witness ==
    /\ promise.state = "rejected"
    /\ waits = <<1000, 2000, 4000>>
    /\ Len(attempts) = 4

\* C24: called with maxRetries <= 0, retryWithBackoff does not invoke fn,
\* does not wait, and resolves with undefined.
C24_NoAttemptResolvesUndefined ==
    retryPc # "idle" /\ maxRetries <= 0
      => /\ invocations = 0
         /\ waits = <<>>
         /\ retryPc = "done"
         /\ promise = Resolved(Undefined)

C24_Witness ==
    /\ retryPc = "done"
    /\ maxRetries < 0
    /\ promise = Resolved(Undefined)

\* ------------------------------------------------------------------------
\* Hook order claims
\* ------------------------------------------------------------------------
\* the hooks of the running test have all run: its body starts
BodyStarts == pc = "hooks" /\ queue = <<>> /\ executing = {}

\* C25: in a test whose beforeEach calls cy.login, the global clearing comes
\* before the login, so the body starts with the session of the login in
\* the browser.
C25_BodyStartsAuthenticated ==
    BodyStarts /\ suiteLogin => browser # NoSession

C25_Witness ==
    /\ BodyStarts
    /\ suiteLogin
    /\ testsRun = 2
    /\ \E e \in log : e.result = "restored" /\ e.sid = browser

\* C30: a test whose beforeEach does not call cy.login starts its body
\* with the browser cleared, whatever sessions earlier tests saved.
C30_NoLoginStartsCleared ==
    BodyStarts /\ ~suiteLogin => browser = NoSession

C30_Witness ==
    /\ BodyStarts
    /\ ~suiteLogin
    /\ DOMAIN sessions # {}
    /\ browser = NoSession

\* ------------------------------------------------------------------------
\* ApiHelper and cy.apiRequest claims
\* ------------------------------------------------------------------------
\* a step in which the helper h sends a request
Sends(h) == lastRequest' # lastRequest /\ lastRequest'.via = h

\* C26: a request of an ApiHelper carries Authorization 'Bearer <token>'
\* iff the helper's token at that moment is a non-empty string, and only
\* Content-Type otherwise; a new helper has no token, and a step changes the
\* token of at most the one helper setToken is called on.
C26_AuthorizationIffTokenSet ==
    [][\A h \in ApiHelpers :
          /\ Sends(h) =>
                /\ DOMAIN lastRequest'.headers =
                      IF helpers[h].token \in Tokens \ {""}
                      THEN {"Content-Type", "Authorization"} ELSE {"Content-Type"}
                /\ lastRequest'.headers["Content-Type"] = "application/json"
                /\ helpers[h].token \in Tokens \ {""}
                      => lastRequest'.headers["Authorization"] = "Bearer " \o helpers[h].token
          /\ ~helpers[h].constructed /\ helpers'[h].constructed => helpers'[h].token = Null
          /\ helpers'[h].token # helpers[h].token
                => \A g \in ApiHelpers \ {h} : helpers'[g] = helpers[g]]_vars

C26_Witness ==
    /\ lastRequest.via = "adminApi"
    /\ lastRequest.outcome = "response"
    /\ DOMAIN lastRequest.headers = {"Content-Type"}
    /\ helpers["adminApi"].token = ""
    /\ helpers["api"].token = "token-a"

\* C27: a request that the server answers with a status outside 2xx gives
\* its response to the caller, and a test never fails on the status
\* itself.
C27_ErrorStatusIsAResponse ==
    /\ lastRequest.status # 0 /\ lastRequest.status \notin 200..299
         => lastRequest.outcome = "response"
    /\ testFailure # "status"
    /\ testFailure = "assertion" => lastRequest.outcome = "response"

C27_Witness ==
    /\ lastRequest.via = "cy.apiRequest"
    /\ lastRequest.status = 404
    /\ lastRequest.outcome = "response"
    /\ testFailure = Undefined

\* ------------------------------------------------------------------------
\* Default environment and tag filter frame claims
\* ------------------------------------------------------------------------
\* C28: when the environment setting is absent or empty, resolution loads
\* the config file 'local' and the run does not end up ready without it.
C28_DefaultsToLocal ==
    Prop(startConfig.env, "environment") \in {Undefined, ""} /\ phase # "boot"
      => /\ phase = "ready"
         /\ loaded = "local"
         /\ Require(loaded, processEnv).default = LocalConfig

C28_Witness ==
    /\ phase = "ready"
    /\ Prop(startConfig.env, "environment") = ""
    /\ loaded = "local"
    /\ testsRun > 0

GrepKeys == {"grepTags", "grepFilterSpecs", "grepOmitFiltered"}

\* the tests a qa run registers under the filter, for a pre-filter mode
SelectedInQa(grepTags, mode) ==
    LET cfg == RegisterCypressGrep(
                   ConfigFor(Spread(CliEnv("qa", Absent), [grepTags |-> grepTags])), mode)
        tests == DiscoveredTests(cfg)
    IN {tests[i].name : i \in {j \in DOMAIN tests : TestIncluded(cfg, tests[j])}}

\* C29: for every environment, the tag filter and its two toggles have the
\* same values after resolution as at invocation, and the tests registered
\* are those a qa run registers under the same filter.
C29_FilterUnchangedByResolution ==
    phase = "ready"
      => /\ \A k \in GrepKeys :
               /\ k \in DOMAIN config.env <=> k \in DOMAIN startConfig.env
               /\ k \in DOMAIN config.env => config.env[k] = startConfig.env[k]
         /\ Registered => \E mode \in PrefilterModes : selected = SelectedInQa(GrepTags, mode)

C29_Witness ==
    /\ Registered
    /\ loaded = "staging"
    /\ GrepTags = <<"@smoke", " ", "@api">>
    /\ selected # {}

====
